---- MODULE Spec2Model ----
(***************************************************************************)
(* A model of src/src/main.rs: parse_data groups the raw feed by provider  *)
(* and key, parse_data_statistics computes min/max/std of every series,    *)
(* clean_data scans every series, drops the readings it classifies as      *)
(* duplicates and accumulates the per-provider gap statistics.             *)
(*                                                                         *)
(* Numbers.  The values of the feed are f32.  The model's values are       *)
(* integers (multiples of one value unit); on the modelled domains every   *)
(* f32 operation of the code on them gives the same comparison results as  *)
(* exact arithmetic.  A float that can be something else than a number of  *)
(* the feed (NaN, f32::MAX, f32::MIN) is a record [k, v].  The standard    *)
(* deviation is the square root of a rational: [k, num, den] stands for    *)
(* sqrt(num / den).                                                        *)
(***************************************************************************)
EXTENDS Integers, Sequences, FiniteSets, TLC

VARIABLES
    pc,               \* position in main: parse, stats, clean, providers, keys, scan, done
    data,             \* parse_data: provider -> key -> DataItem
    data_statistics,  \* parse_data_statistics: provider -> key -> Statistics
    cleaned_data,     \* clean_data: provider -> key -> DataItem
    gap_statistics,   \* clean_data: provider -> <<total_gaps, max_count>>
    providers_left,   \* what the iterator data.keys() of line 158 has not yielded yet
    keys_left,        \* what the iterator data.get(provider).keys() of line 162 has not yielded yet
    provider,         \* loop variable of line 158 (0: none)
    data_id,          \* loop variable of line 162 (0: none)
    idx,              \* position of the zip iterator of line 182 (1-based)
    prevtime,         \* local of line 178
    prevval,          \* local of line 179
    maxgap,           \* local of line 180
    gapcount,         \* local of line 181
    classified,       \* history: <<provider, key>> -> the branch taken for each reading scanned
    key_order         \* history: provider -> keys in the order line 162 yielded them

vars == <<pc, data, data_statistics, cleaned_data, gap_statistics, providers_left,
          keys_left, provider, data_id, idx, prevtime, prevval, maxgap, gapcount,
          classified, key_order>>

(***************************************************************************)
(* Bounds of the model and constants of the program.                       *)
(***************************************************************************)
\* Spec: at most this many numeric items in the raw feed
MaxItems == 4
\* SpecProvider: at most this many numeric items in the raw feed (one provider)
MaxProviderItems == 7
\* SpecSeries: at most this many numeric items in the raw feed (one series)
MaxLen == 4
\* SpecScenario: at most this many numeric items in the raw feed (one series)
MaxScenarioLen == 4

\* the cutoff of the time test, line 194
TIME_CUTOFF == 100

\* Spec: two providers with two keys each, all readings at one timestamp;
\* SpecProvider: one provider with two keys, the same readings
ProviderIds == {1, 2}
Keys == {1, 2}
Readings == {[value |-> 0, timestamp |-> 50], [value |-> 9, timestamp |-> 50]}

\* SpecSeries: one series, timestamps around the cutoff and the timestamp 0
SeriesReadings == [value : {0, 9}, timestamp : {0, 50, 100, 200}]

\* SpecScenario: one series made of the readings of the scenario
\* [(10.0, 0), (10.05, 50), (10.0, 1000), (50.0, 1050)], in units of 0.05
ScenarioReadings == {[value |-> 200, timestamp |-> 0], [value |-> 201, timestamp |-> 50],
                     [value |-> 200, timestamp |-> 1000], [value |-> 1000, timestamp |-> 1050]}

(***************************************************************************)
(* Floats.                                                                 *)
(***************************************************************************)
F32(x) == [k |-> "num", v |-> x]
NAN == [k |-> "nan", v |-> 0]
F32_MAX == [k |-> "f32::MAX", v |-> 0]
F32_MIN == [k |-> "f32::MIN", v |-> 0]

\* the comparison of min is the wrong way round
FMinReversed(a, b) == IF a.k = "f32::MAX" THEN F32(b) ELSE IF b > a.v THEN F32(b) ELSE a

\* a.min(b) and a.max(b) of lines 125-126, b a value of the series
FMin(a, b) == IF a.k = "f32::MAX" THEN F32(b) ELSE IF b < a.v THEN F32(b) ELSE a
FMax(a, b) == IF a.k = "f32::MIN" THEN F32(b) ELSE IF b > a.v THEN F32(b) ELSE a

(***************************************************************************)
(* HashMap and DataItem.                                                   *)
(***************************************************************************)
EmptyMap == <<>>
Insert(map, key, val) == [x \in (DOMAIN map) \cup {key} |-> IF x = key THEN val ELSE map[x]]

EmptyDataItem == [value |-> <<>>, timestamp |-> <<>>]
PushReading(item, value, time) ==
    [value |-> Append(item.value, value), timestamp |-> Append(item.timestamp, time)]

\* number of pairs zip(&item.value, &item.timestamp) yields
ZipLen(item) == IF Len(item.value) < Len(item.timestamp) THEN Len(item.value)
                ELSE Len(item.timestamp)

\* the pairs of a DataItem, as one sequence
Pairs(item) == [i \in 1..ZipLen(item) |-> <<item.value[i], item.timestamp[i]>>]

RECURSIVE SumSeq(_)
SumSeq(s) == IF s = <<>> THEN 0 ELSE s[1] + SumSeq(Tail(s))

RECURSIVE FoldMin(_, _)
FoldMin(a, s) == IF s = <<>> THEN a ELSE FoldMin(FMin(a, s[1]), Tail(s))

RECURSIVE FoldMax(_, _)
FoldMax(a, s) == IF s = <<>> THEN a ELSE FoldMax(FMax(a, s[1]), Tail(s))

(***************************************************************************)
(* parse_data, one raw item at a time.                                     *)
(***************************************************************************)
\* lines 82-95: the provider's map and the key's DataItem are created when missing
EnsureEntry(d, p, k) ==
    LET d1 == IF p \in DOMAIN d THEN d ELSE Insert(d, p, EmptyMap)
    IN  IF k \in DOMAIN d1[p] THEN d1 ELSE Insert(d1, p, Insert(d1[p], k, EmptyDataItem))

\* the <<provider, key>> pairs of a map of maps
PairsOf(d) == {<<p, k>> \in (DOMAIN d) \X (UNION {DOMAIN d[p] : p \in DOMAIN d}) : k \in DOMAIN d[p]}

\* numeric items parsed so far
RECURSIVE CountItems(_, _)
CountItems(d, pks) ==
    IF pks = {} THEN 0
    ELSE LET pk == CHOOSE x \in pks : TRUE
         IN  Len(d[pk[1]][pk[2]].value) + CountItems(d, pks \ {pk})

\* lines 81-109, an item whose value is a number
ParseNumeric(P, K, R, N) ==
    /\ pc = "parse"
    /\ CountItems(data, PairsOf(data)) < N
    /\ \E p \in P, k \in K, r \in R :
          LET d == EnsureEntry(data, p, k)
          IN  data' = Insert(d, p, Insert(d[p], k, PushReading(d[p][k], r.value, r.timestamp)))
    /\ UNCHANGED <<pc, data_statistics, cleaned_data, gap_statistics, providers_left,
                   keys_left, provider, data_id, idx, prevtime, prevval, maxgap, gapcount,
                   classified, key_order>>

\* lines 81-100, an item whose value is not a number: `continue` after the entry is created
ParseCategorical(P, K) ==
    /\ pc = "parse"
    /\ \E p \in P, k \in K : data' = EnsureEntry(data, p, k)
    /\ UNCHANGED <<pc, data_statistics, cleaned_data, gap_statistics, providers_left,
                   keys_left, provider, data_id, idx, prevtime, prevval, maxgap, gapcount,
                   classified, key_order>>

\* line 110: the raw feed is exhausted
ParseEnd ==
    /\ pc = "parse"
    /\ pc' = "stats"
    /\ UNCHANGED <<data, data_statistics, cleaned_data, gap_statistics, providers_left,
                   keys_left, provider, data_id, idx, prevtime, prevval, maxgap, gapcount,
                   classified, key_order>>

(***************************************************************************)
(* parse_data_statistics.                                                  *)
(***************************************************************************)
\* lines 127-140: mean = sum / len; variance = sum((mean - item)^2) / len; sqrt.
\* With S the sum and n the length, mean - item = (S - n * item) / n, so
\* variance = sum((S - n * item)^2) / n^3.  An empty series gives 0.0 / 0.0.
Std(value) ==
    LET n == Len(value)
        S == SumSeq(value)
    IN  IF n = 0 THEN [k |-> "nan", num |-> 0, den |-> 1]
        ELSE [k |-> "num",
              num |-> SumSeq([i \in 1..n |-> (S - n * value[i]) * (S - n * value[i])]),
              den |-> n * n * n]

\* lines 124-141
StatisticsOf(value) ==
    [min |-> FoldMin(F32_MAX, value), max |-> FoldMax(F32_MIN, value), std |-> Std(value)]

\* lines 113-146: always Ok(statistics), with an entry for every key of every provider
ParseDataStatistics ==
    /\ pc = "stats"
    /\ data_statistics' = [p \in DOMAIN data |-> [k \in DOMAIN data[p] |-> StatisticsOf(data[p][k].value)]]
    /\ pc' = "clean"
    /\ UNCHANGED <<data, cleaned_data, gap_statistics, providers_left,
                   keys_left, provider, data_id, idx, prevtime, prevval, maxgap, gapcount,
                   classified, key_order>>

(***************************************************************************)
(* clean_data.                                                             *)
(***************************************************************************)
\* lines 155-158
CleanDataBegin ==
    /\ pc = "clean"
    /\ cleaned_data' = EmptyMap
    /\ gap_statistics' = EmptyMap
    /\ providers_left' = DOMAIN data
    /\ pc' = "providers"
    /\ UNCHANGED <<data, data_statistics, keys_left, provider, data_id, idx, prevtime,
                   prevval, maxgap, gapcount, classified, key_order>>

\* lines 158-162: the next provider, in the map's iteration order (any order)
NextProvider ==
    /\ pc = "providers"
    /\ \E p \in providers_left :
          /\ provider' = p
          /\ providers_left' = providers_left \ {p}
          /\ cleaned_data' = Insert(cleaned_data, p, EmptyMap)
          /\ gap_statistics' = Insert(gap_statistics, p, <<0, 0>>)
          /\ keys_left' = DOMAIN data[p]
          /\ key_order' = Insert(key_order, p, <<>>)
    /\ pc' = "keys"
    /\ UNCHANGED <<data, data_statistics, data_id, idx, prevtime, prevval, maxgap,
                   gapcount, classified>>

\* lines 158, 228: no provider is left, clean_data returns
ProvidersDone ==
    /\ pc = "providers"
    /\ providers_left = {}
    /\ pc' = "done"
    /\ UNCHANGED <<data, data_statistics, cleaned_data, gap_statistics, providers_left,
                   keys_left, provider, data_id, idx, prevtime, prevval, maxgap, gapcount,
                   classified, key_order>>

\* the provider's gap statistics are initialised per key instead of per provider
NextDataIdResets ==
    /\ pc = "keys"
    /\ \E k \in keys_left :
          /\ data_id' = k
          /\ keys_left' = keys_left \ {k}
          /\ cleaned_data' = Insert(cleaned_data, provider,
                                    Insert(cleaned_data[provider], k, EmptyDataItem))
          /\ key_order' = [key_order EXCEPT ![provider] = Append(@, k)]
          /\ classified' = Insert(classified, <<provider, k>>, <<>>)
    /\ gap_statistics' = Insert(gap_statistics, provider, <<0, 0>>)
    /\ prevtime' = 0
    /\ prevval' = NAN
    /\ maxgap' = 0
    /\ gapcount' = 0
    /\ idx' = 1
    /\ pc' = "scan"
    /\ UNCHANGED <<data, data_statistics, providers_left, provider>>

\* lines 162-182: the next key of the provider, in the map's iteration order (any order)
NextDataId ==
    /\ pc = "keys"
    /\ \E k \in keys_left :
          /\ data_id' = k
          /\ keys_left' = keys_left \ {k}
          /\ cleaned_data' = Insert(cleaned_data, provider,
                                    Insert(cleaned_data[provider], k, EmptyDataItem))
          /\ key_order' = [key_order EXCEPT ![provider] = Append(@, k)]
          /\ classified' = Insert(classified, <<provider, k>>, <<>>)
    /\ prevtime' = 0
    /\ prevval' = NAN
    /\ maxgap' = 0
    /\ gapcount' = 0
    /\ idx' = 1
    /\ pc' = "scan"
    /\ UNCHANGED <<data, data_statistics, gap_statistics, providers_left, provider>>

\* line 162: no key is left, on to the next provider
KeysDone ==
    /\ pc = "keys"
    /\ keys_left = {}
    /\ provider' = 0
    /\ pc' = "providers"
    /\ UNCHANGED <<data, data_statistics, cleaned_data, gap_statistics, providers_left,
                   keys_left, data_id, idx, prevtime, prevval, maxgap, gapcount,
                   classified, key_order>>

\* the distance of the two timestamps instead of the clamped difference
TimeDiffAbs(time, prev) == IF time >= prev THEN time - prev ELSE prev - time

\* lines 189-192: time.checked_sub(prevtime), 0 when it would underflow
TimeDiff(time, prev) == IF time >= prev THEN time - prev ELSE 0

\* line 194: (value - prevval).abs() < (item_std / 2.0); false when either side is NaN.
\* |d| < sqrt(num / den) / 2 exactly when 4 * d^2 * den < num.
ValueClose(value, prev, item_std) ==
    /\ prev.k = "num"
    /\ item_std.k = "num"
    /\ 4 * (value - prev.v) * (value - prev.v) * item_std.den < item_std.num

\* line 194, the time test
TimeClose(diff) == diff < TIME_CUTOFF

\* lines 183, 194: the branch the loop body takes for a reading
Branch(ptime, pval, value, time, item_std) ==
    IF ptime = 0 THEN "seed"
    ELSE IF TimeClose(TimeDiff(time, ptime)) /\ ValueClose(value, pval, item_std)
         THEN "duplicate"
         ELSE "retained"

\* the write-back of line 202 keeps the old total
TotalGapsLost(total_gaps) == total_gaps

\* line 196
TotalGaps(total_gaps) == total_gaps + 1

\* the run is counted with the reading the duplicates repeat
MaxCountWithSeed(max_count, gaps, mgap) == IF gaps > mgap THEN gaps + 1 ELSE max_count

\* lines 198-201: the provider's max_count, compared with the local maxgap
MaxCount(max_count, gaps, mgap) == IF gaps > mgap THEN gaps ELSE max_count

\* lines 198-201: the local maxgap
MaxGap(gaps, mgap) == IF gaps > mgap THEN gaps ELSE mgap

\* the value and the time are pushed to each other's vector
CleanedPushSwapped(item, value, time) == PushReading(item, time, value)

\* lines 206-219
CleanedPush(item, value, time) == PushReading(item, value, time)

\* lines 183-223: one pass of the loop body over the reading (value, time).
\* st holds the locals, the key's cleaned DataItem and the provider's gap statistics.
ScanBody(st, value, time, item_std) ==
    LET b == Branch(st.prevtime, st.prevval, value, time, item_std)
    IN  IF b = "seed"
        THEN [st EXCEPT !.prevtime = time, !.prevval = F32(value)]
        ELSE IF b = "duplicate"
        THEN [st EXCEPT !.gs = <<TotalGaps(st.gs[1]),
                                 MaxCount(st.gs[2], st.gapcount + 1, st.maxgap)>>,
                        !.gapcount = st.gapcount + 1,
                        !.maxgap = MaxGap(st.gapcount + 1, st.maxgap)]
        ELSE [st EXCEPT !.item = CleanedPush(st.item, value, time),
                        !.prevtime = time,
                        !.prevval = F32(value),
                        !.gapcount = 0]

\* the state ScanBody works on, as the variables hold it
ScanState ==
    [prevtime |-> prevtime, prevval |-> prevval, maxgap |-> maxgap, gapcount |-> gapcount,
     item |-> cleaned_data[provider][data_id], gs |-> gap_statistics[provider]]

\* the reading the zip iterator yields next
Current == [value |-> data[provider][data_id].value[idx],
            timestamp |-> data[provider][data_id].timestamp[idx]]

\* the gap statistics are written to every provider's entry
ScanShared(b) ==
    /\ idx <= ZipLen(data[provider][data_id])
    /\ LET item_std == data_statistics[provider][data_id].std
           st == ScanBody(ScanState, Current.value, Current.timestamp, item_std)
       IN  /\ Branch(prevtime, prevval, Current.value, Current.timestamp, item_std) = b
           /\ prevtime' = st.prevtime
           /\ prevval' = st.prevval
           /\ maxgap' = st.maxgap
           /\ gapcount' = st.gapcount
           /\ cleaned_data' = [cleaned_data EXCEPT ![provider][data_id] = st.item]
           /\ gap_statistics' = [q \in DOMAIN gap_statistics |-> st.gs]
    /\ classified' = [classified EXCEPT ![<<provider, data_id>>] = Append(@, b)]
    /\ idx' = idx + 1
    /\ UNCHANGED <<pc, data, data_statistics, providers_left, keys_left, provider,
                   data_id, key_order>>

\* one pass of the loop body that takes branch b
Scan(b) ==
    /\ idx <= ZipLen(data[provider][data_id])
    /\ LET item_std == data_statistics[provider][data_id].std
           st == ScanBody(ScanState, Current.value, Current.timestamp, item_std)
       IN  /\ Branch(prevtime, prevval, Current.value, Current.timestamp, item_std) = b
           /\ prevtime' = st.prevtime
           /\ prevval' = st.prevval
           /\ maxgap' = st.maxgap
           /\ gapcount' = st.gapcount
           /\ cleaned_data' = [cleaned_data EXCEPT ![provider][data_id] = st.item]
           /\ gap_statistics' = [gap_statistics EXCEPT ![provider] = st.gs]
    /\ classified' = [classified EXCEPT ![<<provider, data_id>>] = Append(@, b)]
    /\ idx' = idx + 1
    /\ UNCHANGED <<pc, data, data_statistics, providers_left, keys_left, provider,
                   data_id, key_order>>

\* lines 183-187
Seed ==
    /\ pc = "scan"
    /\ Scan("seed")

\* lines 189-204
Duplicate ==
    /\ pc = "scan"
    /\ Scan("duplicate")

\* lines 189-194, 206-223
Retain ==
    /\ pc = "scan"
    /\ Scan("retained")

\* line 182: the zip iterator is exhausted; the locals go out of scope
ScanDone ==
    /\ pc = "scan"
    /\ idx > ZipLen(data[provider][data_id])
    /\ data_id' = 0
    /\ idx' = 0
    /\ prevtime' = 0
    /\ prevval' = NAN
    /\ maxgap' = 0
    /\ gapcount' = 0
    /\ pc' = "keys"
    /\ UNCHANGED <<data, data_statistics, cleaned_data, gap_statistics, providers_left,
                   keys_left, provider, classified, key_order>>

(***************************************************************************)
(* main: parse_data, parse_data_statistics, clean_data.                    *)
(***************************************************************************)
Init ==
    /\ pc = "parse"
    /\ data = EmptyMap
    /\ data_statistics = EmptyMap
    /\ cleaned_data = EmptyMap
    /\ gap_statistics = EmptyMap
    /\ providers_left = {}
    /\ keys_left = {}
    /\ provider = 0
    /\ data_id = 0
    /\ idx = 0
    /\ prevtime = 0
    /\ prevval = NAN
    /\ maxgap = 0
    /\ gapcount = 0
    /\ classified = EmptyMap
    /\ key_order = EmptyMap

Run ==
    \/ ParseEnd
    \/ ParseDataStatistics
    \/ CleanDataBegin
    \/ NextProvider
    \/ ProvidersDone
    \/ NextDataId
    \/ KeysDone
    \/ Seed
    \/ Duplicate
    \/ Retain
    \/ ScanDone

Next ==
    \/ ParseNumeric(ProviderIds, Keys, Readings, MaxItems)
    \/ ParseCategorical(ProviderIds, Keys)
    \/ Run

NextProviderFeed ==
    \/ ParseNumeric({1}, Keys, Readings, MaxProviderItems)
    \/ ParseCategorical({1}, Keys)
    \/ Run

NextSeries ==
    \/ ParseNumeric({1}, {1}, SeriesReadings, MaxLen)
    \/ ParseCategorical({1}, {1})
    \/ Run

NextScenario ==
    \/ ParseNumeric({1}, {1}, ScenarioReadings, MaxScenarioLen)
    \/ ParseCategorical({1}, {1})
    \/ Run

\* a feed of two providers with two keys each
Spec == Init /\ [][Next]_vars

\* a feed of one provider with two keys
SpecProvider == Init /\ [][NextProviderFeed]_vars

\* a feed of one series
SpecSeries == Init /\ [][NextSeries]_vars

\* a feed of one series made of the scenario's readings
SpecScenario == Init /\ [][NextScenario]_vars

TypeOK ==
    /\ pc \in {"parse", "stats", "clean", "providers", "keys", "scan", "done"}
    /\ \A pk \in PairsOf(data) : Len(data[pk[1]][pk[2]].value) = Len(data[pk[1]][pk[2]].timestamp)

(***************************************************************************)
(* What the claims speak of.                                               *)
(***************************************************************************)
InputSeries(pk) == Pairs(data[pk[1]][pk[2]])
CleanedSeries(pk) == Pairs(cleaned_data[pk[1]][pk[2]])
StdOf(pk) == data_statistics[pk[1]][pk[2]].std

\* the series clean_data has scanned to the end
ScannedSeries == {pk \in DOMAIN classified : Len(classified[pk]) = Len(InputSeries(pk))}

\* the providers all of whose series clean_data has scanned
FinishedProviders == {p \in DOMAIN gap_statistics : p # provider}

\* the number of readings classified duplicate
DupCount(labels) == Cardinality({i \in DOMAIN labels : labels[i] = "duplicate"})

\* n consecutive readings classified duplicate
HasRun(labels, n) ==
    \E i \in 1..(Len(labels) - n + 1) : \A j \in i..(i + n - 1) : labels[j] = "duplicate"

\* the length of the longest run of consecutive readings classified duplicate
LongestRun(labels) ==
    CHOOSE n \in 0..Len(labels) : HasRun(labels, n) /\ ~HasRun(labels, n + 1)

SetMax(S) == CHOOSE x \in S : \A y \in S : y <= x

RECURSIVE SetSum(_, _)
SetSum(f, S) ==
    IF S = {} THEN 0
    ELSE LET x == CHOOSE y \in S : TRUE IN f[x] + SetSum(f, S \ {x})

\* the keys of provider p that clean_data has begun to scan
KeysBegun(p) == {k \in DOMAIN data[p] : <<p, k>> \in DOMAIN classified}

RECURSIVE IsSubseq(_, _)
IsSubseq(c, s) ==
    IF c = <<>> THEN TRUE
    ELSE IF s = <<>> THEN FALSE
    ELSE IF c[1] = s[1] THEN IsSubseq(Tail(c), Tail(s))
    ELSE IsSubseq(c, Tail(s))

(***************************************************************************)
(* C1: the first reading of a non-empty series is the first element of its *)
(* cleaned series, and a series of one reading is cleaned to itself.       *)
(* The code skips the push for the reading that seeds prevtime/prevval     *)
(* (`continue` at line 186), so this fails.                                *)
(***************************************************************************)
C1_FirstReadingRetained ==
    \A pk \in ScannedSeries :
        Len(InputSeries(pk)) > 0 =>
            /\ Len(CleanedSeries(pk)) > 0
            /\ CleanedSeries(pk)[1] = InputSeries(pk)[1]
            /\ (Len(InputSeries(pk)) = 1 => CleanedSeries(pk) = InputSeries(pk))

(***************************************************************************)
(* C2: gap conservation.  For every scanned series the number of input     *)
(* readings is the number of cleaned readings plus the number of readings  *)
(* classified duplicate, and with no duplicate the cleaned series is the   *)
(* input.  The seeding reading is neither pushed nor counted, so it fails. *)
(***************************************************************************)
C2_GapConservation ==
    \A pk \in ScannedSeries :
        /\ Len(InputSeries(pk)) = Len(CleanedSeries(pk)) + DupCount(classified[pk])
        /\ (DupCount(classified[pk]) = 0 => CleanedSeries(pk) = InputSeries(pk))

(***************************************************************************)
(* C3: once all series of a provider are scanned, its max_gap_run is the   *)
(* longest run of consecutive duplicates found in any one of its series.   *)
(* line 198 compares with the local maxgap, which restarts at 0 for every  *)
(* series, so a later series with a shorter run overwrites the maximum.    *)
(***************************************************************************)
C3_MaxGapRun ==
    \A p \in FinishedProviders :
        gap_statistics[p][2] =
            SetMax({0} \cup {LongestRun(classified[<<p, k>>]) : k \in KeysBegun(p)})

(***************************************************************************)
(* C4: a provider's total_gap_count is the number of readings classified   *)
(* duplicate, summed over all series of the provider scanned so far.       *)
(***************************************************************************)
C4_TotalGapCount ==
    \A p \in DOMAIN gap_statistics :
        gap_statistics[p][1] =
            SetSum([k \in KeysBegun(p) |-> DupCount(classified[<<p, k>>])], KeysBegun(p))

\* both series of a provider are scanned and each had a duplicate
C4_Witness ==
    /\ pc = "done"
    /\ \E p \in DOMAIN gap_statistics :
          /\ Cardinality(KeysBegun(p)) = 2
          /\ \A k \in KeysBegun(p) : DupCount(classified[<<p, k>>]) >= 1
          /\ gap_statistics[p][1] >= 3

(***************************************************************************)
(* C5: a reading after the first of its series is classified duplicate     *)
(* exactly when, relative to the last reading before it that was not       *)
(* classified duplicate, the time difference is < 100 and the value        *)
(* difference is < std / 2.  A reading that follows a seeding reading with *)
(* timestamp 0 is taken for a first reading again (line 183) and is not    *)
(* classified at all, so this fails.                                       *)
(***************************************************************************)
\* the index of the last reading before i that was not classified duplicate
LastKept(labels, i) == SetMax({j \in 1..(i - 1) : labels[j] # "duplicate"})

C5_DuplicateIff ==
    \A pk \in DOMAIN classified :
        \A i \in 2..Len(classified[pk]) :
            LET s == InputSeries(pk)
                j == LastKept(classified[pk], i)
            IN  classified[pk][i] = "duplicate" <=>
                    /\ TimeDiff(s[i][2], s[j][2]) < 100
                    /\ ValueClose(s[i][1], F32(s[j][1]), StdOf(pk))

(***************************************************************************)
(* C6: the cleaned series of every (provider, key) is a subsequence of the *)
(* pair's input series: readings of the input, in the input's order, none  *)
(* inserted, altered or repeated.                                          *)
(***************************************************************************)
C6_CleanedIsSubsequence ==
    \A pk \in PairsOf(cleaned_data) : IsSubseq(CleanedSeries(pk), InputSeries(pk))

\* a scanned series with a duplicate dropped and two readings kept
C6_Witness ==
    \E pk \in ScannedSeries :
        /\ pc = "done"
        /\ DupCount(classified[pk]) >= 1
        /\ Len(CleanedSeries(pk)) >= 2

(***************************************************************************)
(* C7: a reading with timestamp 0 at the head of a series is the seed and  *)
(* the second reading is classified against it; the series                 *)
(* [(10.0,0),(10.05,50),(10.0,1000),(50.0,1050)] is cleaned to             *)
(* [(10.0,0),(10.0,1000),(50.0,1050)] with one gap counted.  The code uses *)
(* prevtime == 0 for "no previous reading", so the second reading seeds    *)
(* again and nothing is counted.  (Values in units of 0.05.)               *)
(***************************************************************************)
ScenarioSeries == <<<<200, 0>>, <<201, 50>>, <<200, 1000>>, <<1000, 1050>>>>
ScenarioCleaned == <<<<200, 0>>, <<200, 1000>>, <<1000, 1050>>>>

C7_ZeroTimestampSeed ==
    /\ \A pk \in DOMAIN classified :
          Len(classified[pk]) >= 2 => classified[pk][2] # "seed"
    /\ (pc = "done" /\ <<1, 1>> \in PairsOf(data) /\ InputSeries(<<1, 1>>) = ScenarioSeries) =>
          /\ CleanedSeries(<<1, 1>>) = ScenarioCleaned
          /\ gap_statistics[1][1] = 1

(***************************************************************************)
(* C8: for a key whose series has no numeric reading, parse_data_statistics*)
(* signals an error instead of returning a summary, and the cleaner is not *)
(* run on that series.  The code returns Ok with a Statistics entry for    *)
(* every key (min f32::MAX, max f32::MIN, std NaN for an empty series) and *)
(* clean_data iterates over the key.                                       *)
(***************************************************************************)
EmptySeriesKeys == {pk \in PairsOf(data) : Len(data[pk[1]][pk[2]].value) = 0}

C8_EmptySeriesError ==
    pc \notin {"parse", "stats"} =>
        \A pk \in EmptySeriesKeys :
            /\ pk \notin PairsOf(data_statistics)
            /\ pk \notin DOMAIN classified

(***************************************************************************)
(* clean_data as a function: the loops of lines 162 and 182 run to the end *)
(* over a given order of the keys.                                         *)
(***************************************************************************)
\* lines 178-224: the loop of line 182 from reading i on
RECURSIVE ScanFrom(_, _, _, _)
ScanFrom(st, item, i, item_std) ==
    IF i > ZipLen(item) THEN st
    ELSE ScanFrom(ScanBody(st, item.value[i], item.timestamp[i], item_std), item, i + 1, item_std)

\* lines 163-224: one series scanned, gs the provider's gap statistics before it
CleanSeries(item, item_std, gs) ==
    ScanFrom([prevtime |-> 0, prevval |-> NAN, maxgap |-> 0, gapcount |-> 0,
              item |-> EmptyDataItem, gs |-> gs], item, 1, item_std)

\* lines 160-225: the gap statistics of a provider whose keys are scanned in this order
RECURSIVE CleanKeys(_, _, _, _)
CleanKeys(items, stats, order, gs) ==
    IF order = <<>> THEN gs
    ELSE CleanKeys(items, stats, Tail(order),
                   CleanSeries(items[order[1]], stats[order[1]].std, gs).gs)

\* the orders in which a map may yield the keys S
Orders(S) == {o \in [1..Cardinality(S) -> S] : \A i, j \in DOMAIN o : o[i] = o[j] => i = j}

(***************************************************************************)
(* C9: a key with an empty series does not stop the run and changes        *)
(* nothing for the others: at the end every provider's gap statistics and  *)
(* the cleaned series of its non-empty keys are what clean_data gives for  *)
(* the provider's non-empty keys alone (in the order they were scanned),   *)
(* and the cleaned series of an empty key is empty.                        *)
(***************************************************************************)
NonEmptyKey(p, k) == Len(data[p][k].value) > 0

C9_EmptySeriesIsolated ==
    pc = "done" =>
        \A p \in DOMAIN data :
            /\ p \in DOMAIN gap_statistics
            /\ gap_statistics[p] =
                  CleanKeys(data[p], data_statistics[p],
                            SelectSeq(key_order[p], LAMBDA k : NonEmptyKey(p, k)), <<0, 0>>)
            /\ \A k \in DOMAIN data[p] :
                  /\ k \in DOMAIN cleaned_data[p]
                  /\ ~NonEmptyKey(p, k) => cleaned_data[p][k] = EmptyDataItem
                  /\ NonEmptyKey(p, k) =>
                        cleaned_data[p][k] =
                            CleanSeries(data[p][k], data_statistics[p][k].std, <<0, 0>>).item

\* the run ended; a provider's empty key was scanned after a sibling with a duplicate
\* and another provider had a series with a reading
C9_Witness ==
    /\ pc = "done"
    /\ \E p \in DOMAIN data :
          /\ Len(key_order[p]) = 2
          /\ NonEmptyKey(p, key_order[p][1])
          /\ ~NonEmptyKey(p, key_order[p][2])
          /\ gap_statistics[p][1] >= 1
          /\ \E q \in DOMAIN data : q # p /\ \E k \in DOMAIN data[q] : NonEmptyKey(q, k)

(***************************************************************************)
(* C10: the result does not depend on the order in which a provider's keys *)
(* are scanned: at the end the gap statistics of every provider are what   *)
(* clean_data gives for every order of its keys.  max_count is overwritten *)
(* by the first duplicate of every series (see C3), so the order shows.    *)
(***************************************************************************)
C10_OrderIndependent ==
    pc = "done" =>
        \A p \in DOMAIN data :
            \A o \in Orders(DOMAIN data[p]) :
                gap_statistics[p] = CleanKeys(data[p], data_statistics[p], o, <<0, 0>>)

(***************************************************************************)
(* C11: gap statistics never mix providers.  A step of clean_data taken    *)
(* while provider P is being processed leaves the gap statistics and the   *)
(* cleaned data of every other provider as they were.                      *)
(***************************************************************************)
C11_OtherProvidersUnchanged ==
    [][\A q \in DOMAIN gap_statistics :
          (pc \in {"providers", "keys", "scan"} /\ q # provider) =>
              /\ q \in DOMAIN gap_statistics'
              /\ q \in DOMAIN cleaned_data'
              /\ gap_statistics'[q] = gap_statistics[q]
              /\ cleaned_data'[q] = cleaned_data[q]]_vars

\* one provider is finished with a duplicate counted and a reading kept, and a
\* series of the other provider is being scanned
C11_Witness ==
    /\ pc = "scan"
    /\ idx >= 2
    /\ \E q \in FinishedProviders :
          /\ gap_statistics[q][1] >= 1
          /\ \E k \in DOMAIN cleaned_data[q] : Len(cleaned_data[q][k].value) >= 1

(***************************************************************************)
(* C12: for all inputs the timestamps of a cleaned series are              *)
(* non-decreasing.  clean_data neither sorts nor rejects: a reading whose  *)
(* timestamp lies before the previous one is retained when its value is    *)
(* far enough (lines 189-194), so this fails for an input out of order.    *)
(***************************************************************************)
NonDecreasing(s) == \A i \in 1..(Len(s) - 1) : s[i][2] <= s[i + 1][2]

C12_CleanedNonDecreasing ==
    \A pk \in PairsOf(cleaned_data) : NonDecreasing(CleanedSeries(pk))

\* C12 as amended: the timestamps of a cleaned series are non-decreasing
\* whenever the timestamps of its input series are
C12_SortedInputSortedCleaned ==
    \A pk \in PairsOf(cleaned_data) :
        NonDecreasing(InputSeries(pk)) => NonDecreasing(CleanedSeries(pk))

\* an input in timestamp order, a duplicate dropped, two readings kept at
\* increasing timestamps
C12_Witness ==
    \E pk \in ScannedSeries :
        /\ pc = "done"
        /\ NonDecreasing(InputSeries(pk))
        /\ DupCount(classified[pk]) >= 1
        /\ Len(CleanedSeries(pk)) >= 2
        /\ CleanedSeries(pk)[1][2] < CleanedSeries(pk)[2][2]

(***************************************************************************)
(* C13: for every non-empty series the min and max of its Statistics are   *)
(* the smallest and the largest value of the whole series (they bound      *)
(* every value and both occur in it), and computing the summary again on   *)
(* the same series gives the stored summary.                               *)
(***************************************************************************)
C13_MinMaxAreExtrema ==
    \A pk \in PairsOf(data_statistics) :
        LET value == data[pk[1]][pk[2]].value
            st == data_statistics[pk[1]][pk[2]]
        IN  /\ st = StatisticsOf(value)
            /\ Len(value) > 0 =>
                  /\ st.min.k = "num"
                  /\ st.max.k = "num"
                  /\ \A i \in 1..Len(value) : st.min.v <= value[i] /\ value[i] <= st.max.v
                  /\ \E i \in 1..Len(value) : value[i] = st.min.v
                  /\ \E i \in 1..Len(value) : value[i] = st.max.v

\* the summary of a series whose smallest value is not its first and whose
\* largest value is not its last
C13_Witness ==
    \E pk \in PairsOf(data_statistics) :
        LET value == data[pk[1]][pk[2]].value
            st == data_statistics[pk[1]][pk[2]]
        IN  /\ pc = "done"
            /\ Len(value) >= 3
            /\ st.min.v < value[1]
            /\ value[Len(value)] < st.max.v

(***************************************************************************)
(* C14: suppressing a duplicate leaves prevtime and prevval as they were,  *)
(* so the next reading is compared with the same reading; a series of N    *)
(* readings that are all duplicates of the first collapses to that first   *)
(* reading, with N - 1 duplicates counted and a run of N - 1.              *)
(* The step of a duplicate does leave prevtime and prevval alone           *)
(* (DuplicateKeepsPrevious holds), but the first reading never enters the  *)
(* cleaned series (see C1), so no series collapses to its first reading.   *)
(***************************************************************************)
\* the number of readings classified duplicate at the end of labels
RECURSIVE TrailingDups(_)
TrailingDups(labels) ==
    IF labels = <<>> \/ labels[Len(labels)] # "duplicate" THEN 0
    ELSE 1 + TrailingDups(SubSeq(labels, 1, Len(labels) - 1))

\* a step that classifies a reading as duplicate changes neither prevtime nor
\* prevval nor the cleaned data, and counts the reading in the run and in the total
DuplicateStepKeepsPrevious ==
    (/\ pc = "scan"
     /\ idx' = idx + 1
     /\ classified'[<<provider, data_id>>][idx] = "duplicate") =>
        /\ prevtime' = prevtime
        /\ prevval' = prevval
        /\ cleaned_data' = cleaned_data
        /\ gapcount' = gapcount + 1
        /\ gapcount' = TrailingDups(classified'[<<provider, data_id>>])
        /\ gap_statistics'[provider][1] = gap_statistics[provider][1] + 1

DuplicateKeepsPrevious == [][DuplicateStepKeepsPrevious]_vars

\* every reading after the first is classified duplicate
AllDuplicatesOfFirst(labels) == \A i \in 2..Len(labels) : labels[i] = "duplicate"

\* a scanned series of duplicates of its first reading is cleaned to that reading
CollapsedToFirst ==
    \A pk \in ScannedSeries :
        (Len(InputSeries(pk)) >= 1 /\ AllDuplicatesOfFirst(classified[pk])) =>
            /\ CleanedSeries(pk) = <<InputSeries(pk)[1]>>
            /\ DupCount(classified[pk]) = Len(InputSeries(pk)) - 1
            /\ LongestRun(classified[pk]) = Len(InputSeries(pk)) - 1

C14_DuplicateCollapses == [][DuplicateStepKeepsPrevious /\ CollapsedToFirst']_vars

\* with the std of the series itself (in exact arithmetic) the readings after
\* the first are never all duplicates
NoSeriesOfDuplicatesOnly ==
    \A pk \in ScannedSeries :
        Len(InputSeries(pk)) >= 2 => ~AllDuplicatesOfFirst(classified[pk])

(***************************************************************************)
(* C15: a reading whose timestamp is smaller than that of the reading it   *)
(* is compared with (the last one not classified duplicate) gets the time  *)
(* difference 0: it is classified, and it is a duplicate exactly when its  *)
(* value difference is < std / 2, however far back its timestamp lies.     *)
(***************************************************************************)
C15_BackwardTimestamp ==
    \A pk \in DOMAIN classified :
        \A i \in 2..Len(classified[pk]) :
            LET s == InputSeries(pk)
                j == LastKept(classified[pk], i)
            IN  s[i][2] < s[j][2] =>
                    /\ classified[pk][i] # "seed"
                    /\ classified[pk][i] = "duplicate" <=>
                           ValueClose(s[i][1], F32(s[j][1]), StdOf(pk))

\* a reading 100 or more before the reading it is compared with was classified
\* duplicate, and another one was retained
C15_Witness ==
    \E pk \in ScannedSeries :
        LET s == InputSeries(pk)
            back(i) == s[LastKept(classified[pk], i)][2] - s[i][2]
        IN  /\ \E i \in 2..Len(s) : back(i) >= 100 /\ classified[pk][i] = "duplicate"
            /\ \E i \in 2..Len(s) : back(i) >= 100 /\ classified[pk][i] = "retained"

(***************************************************************************)
(* C16: when all values of a series are the same (std = 0) a reading after *)
(* the first is classified duplicate exactly when its time difference to   *)
(* the last reading not classified duplicate is < 100.  With std = 0 the   *)
(* value test of line 194 is 0 < 0, so no reading is a duplicate at all.   *)
(***************************************************************************)
C16_FlatSeriesTimeOnly ==
    \A pk \in DOMAIN classified :
        (StdOf(pk).k = "num" /\ StdOf(pk).num = 0) =>
            \A i \in 2..Len(classified[pk]) :
                LET s == InputSeries(pk)
                    j == LastKept(classified[pk], i)
                IN  classified[pk][i] = "duplicate" <=> TimeDiff(s[i][2], s[j][2]) < 100

(***************************************************************************)
(* C17: while clean_data runs, a provider's max_gap_run changes only in a  *)
(* step where the run length exceeds the recorded max_gap_run, and then    *)
(* becomes that run length; so it never decreases, not even from one       *)
(* series of the provider to the next.  Line 198 compares with the local   *)
(* maxgap instead (see C3), so the first duplicate of a later series       *)
(* lowers it.                                                              *)
(***************************************************************************)
C17_MaxGapRunMonotone ==
    [][\A p \in (DOMAIN gap_statistics) \cap (DOMAIN gap_statistics') :
          pc \in {"providers", "keys", "scan"} =>
              /\ gap_statistics'[p][2] >= gap_statistics[p][2]
              /\ gap_statistics'[p][2] # gap_statistics[p][2] =>
                    /\ gapcount' > gap_statistics[p][2]
                    /\ gap_statistics'[p][2] = gapcount']_vars

(***************************************************************************)
(* C18: in every state a provider's max_gap_run is at most its             *)
(* total_gap_count, and both are 0 while no reading of the provider has    *)
(* been classified duplicate.                                              *)
(***************************************************************************)
C18_MaxRunAtMostTotal ==
    \A p \in DOMAIN gap_statistics :
        /\ gap_statistics[p][2] <= gap_statistics[p][1]
        /\ (\A k \in KeysBegun(p) : DupCount(classified[<<p, k>>]) = 0) =>
              gap_statistics[p] = <<0, 0>>

\* a provider ends with a run of 2 or more that is shorter than its total
C18_Witness ==
    /\ pc = "done"
    /\ \E p \in DOMAIN gap_statistics :
          /\ gap_statistics[p][2] >= 2
          /\ gap_statistics[p][2] < gap_statistics[p][1]

(***************************************************************************)
(* C19: no two adjacent readings of a cleaned series form a duplicate      *)
(* pair (time difference, clamped at 0, < 100 and value difference         *)
(* < std / 2).  A retained reading with timestamp 0 sets prevtime to 0, the*)
(* next reading then seeds again without entering the cleaned series, and  *)
(* the reading after it is compared with that seed, not with its           *)
(* neighbour in the cleaned series.                                        *)
(***************************************************************************)
C19_NoAdjacentDuplicatePair ==
    \A pk \in PairsOf(cleaned_data) :
        LET c == CleanedSeries(pk)
        IN  \A i \in 1..(Len(c) - 1) :
                ~(/\ TimeDiff(c[i + 1][2], c[i][2]) < 100
                  /\ ValueClose(c[i + 1][1], F32(c[i][1]), StdOf(pk)))

====
